---- MODULE Spec2Model ----
(***************************************************************************)
(* Model of source/utils/CarlaLibUtils.hpp (non-Windows branch): the      *)
(* library calls lib_open / lib_close / lib_symbol / lib_error and the    *)
(* box64 bootstrap InitBox64, with the two process-wide function pointers *)
(* LoadLibraryWithEmulator and RunFuncWithEmulator.                       *)
(*                                                                         *)
(* Threads interleave at the granularity of one statement of InitBox64    *)
(* (one dl* call, or one store to a global together with the test that    *)
(* follows it); the other library calls are one step each.                *)
(*                                                                         *)
(* The platform loader and the box64 library are the environment: which   *)
(* files exist and which symbols they export is fixed for a run (chosen   *)
(* in Init), the status returned by box64's Initialize is chosen at each  *)
(* call.  The dl* functions and the box64 entry points are C functions    *)
(* and do not throw, so the try/catch of the library calls never fires.   *)
(* Callers pass null or open handles only (use after close is excluded).  *)
(***************************************************************************)
EXTENDS Integers, Sequences, FiniteSets, TLC

VARIABLES
    LoadLibraryWithEmulator,  \* static global, line 37
    RunFuncWithEmulator,      \* static global, line 34
    environ,                  \* value of BOX64_LD_LIBRARY_PATH in the process
    bridge,                   \* the box64 file on disk: does it exist, what it exports
    loaded,                   \* loader reference count of each native handle
    globalScope,              \* native handles opened with RTLD_GLOBAL
    x64Loaded,                \* handles issued by box64's LoadX64Library
    dlerr,                    \* the loader's last-error slot read by dlerror()
    proc,                     \* "running", "aborted" (abort()), "crashed" (null call)
    stderr,                   \* last diagnostic InitBox64 printed
    pc,                       \* per thread: position inside lib_open / InitBox64
    filename,                 \* per thread: lib_open's argument while it runs
    box64_lib_handle,         \* per thread: InitBox64 local, line 47
    box64_init_func,          \* per thread: InitBox64 local, line 53
    trace,                    \* per thread: primitives called by its current call
    last,                     \* the library call that returned last, with its result
    bootstraps,               \* number of InitBox64 runs started
    initCalls                 \* number of calls of box64's Initialize

vars == <<LoadLibraryWithEmulator, RunFuncWithEmulator, environ, bridge, loaded,
          globalScope, x64Loaded, dlerr, proc, stderr, pc, filename,
          box64_lib_handle, box64_init_func, trace, last, bootstraps, initCalls>>

BridgeState == <<LoadLibraryWithEmulator, RunFuncWithEmulator>>

-----------------------------------------------------------------------------
(* Bounds *)

MaxBootstraps == 2   \* InitBox64 runs started in one behaviour
MaxRef == 1          \* loader reference count of a library the caller opens

-----------------------------------------------------------------------------
(* Values *)

NULL == 0

Threads == {"t1", "t2"}
MainThread == "t1"

\* A const char* argument: a null pointer, or a pointer to the string s.
CStr(s) == [null |-> FALSE, s |-> s]
NullStr == [null |-> TRUE, s |-> ""]

\* filename != nullptr && filename[0] != '\0'
NonEmpty(str) == ~str.null /\ str.s # ""

box64_lib_path == "/home/javier/Documents/Github/box64/build/libbox64.so"
box64_ld_library_path == "/home/javier/Documents/Github/box64/x64lib"

\* Handles the loader and box64 issue.
FooHandle == 1
Box64Handle == 2
X64Handle == 3

\* Addresses of exported symbols.
AddrDoWork == 11
AddrInitialize == 21
AddrLoadX64Library == 22
AddrRunX64Function == 23
AddrX64DoWork == 31

BridgeSyms == {"Initialize", "LoadX64Library", "RunX64Function"}

\* The box64 file at box64_lib_path: absent, or present and exporting all three
\* entry points or all but one of them.
BridgeFiles ==
    {[exists |-> FALSE, syms |-> {}], [exists |-> TRUE, syms |-> BridgeSyms]}
    \cup {[exists |-> TRUE, syms |-> BridgeSyms \ {x}] : x \in BridgeSyms}

\* What callers pass.
FileArgs == {NullStr, CStr(""), CStr("libfoo.so"), CStr("/nonexistent/path.so")}
SymbolArgs == {NullStr, CStr(""), CStr("doWork"), CStr("missingSym")}
PriorEnviron == {"<unset>", "/usr/lib/x64"}

\* The loader's error slot: null, or a message.
NoError == [null |-> TRUE, s |-> ""]
Error(msg) == [null |-> FALSE, s |-> msg]

\* What is kept of a library call that returned: which call, whether its
\* arguments passed the CARLA_SAFE_ASSERT_RETURN checks, use_libbox64, the value
\* returned (err for lib_error, ret for the others), the loader and box64
\* primitives it called, and the pointer an emulated call went through.
NoCall == [op |-> "none", valid |-> FALSE, emu |-> FALSE, ret |-> NULL,
           err |-> NoError, used |-> {}, via |-> NULL]

Range(s) == {s[i] : i \in 1..Len(s)}

-----------------------------------------------------------------------------
(* The platform loader (dlopen, dlsym, dlclose, dlerror) *)

\* dlopen(path, flags): the handle, or NULL when the file cannot be loaded.
dlopen(path) ==
    IF path = "libfoo.so" THEN FooHandle
    ELSE IF path = box64_lib_path /\ bridge.exists THEN Box64Handle
    ELSE NULL

\* dlsym(handle, name): the symbol's address, or NULL when it is absent.
dlsym(handle, name) ==
    IF handle = FooHandle /\ name = "doWork" THEN AddrDoWork
    ELSE IF handle = Box64Handle /\ name \in bridge.syms THEN
        CASE name = "Initialize" -> AddrInitialize
          [] name = "LoadX64Library" -> AddrLoadX64Library
          [] name = "RunX64Function" -> AddrRunX64Function
    ELSE NULL

\* The error slot after a dl* call: a failure stores its message; a success
\* leaves the slot alone or clears it, depending on the platform.
SlotAfter(ok, msg) ==
    IF ok THEN {dlerr, NoError} ELSE {Error(msg)}

(* The box64 entry points *)

\* LoadX64Library(path)
LoadX64Library(path) == IF path = "libfoo.so" THEN X64Handle ELSE NULL

\* RunX64Function(lib, name)
RunX64Function(lib, name) ==
    IF lib = X64Handle /\ lib \in x64Loaded /\ name = "doWork"
    THEN AddrX64DoWork ELSE NULL

-----------------------------------------------------------------------------
Init ==
    /\ LoadLibraryWithEmulator = NULL
    /\ RunFuncWithEmulator = NULL
    /\ environ \in PriorEnviron
    /\ bridge \in BridgeFiles
    /\ loaded = [h \in {FooHandle, Box64Handle} |-> 0]
    /\ globalScope = {}
    /\ x64Loaded = {}
    /\ dlerr = NoError
    /\ proc = "running"
    /\ stderr = "none"
    /\ pc = [t \in Threads |-> "idle"]
    /\ filename = [t \in Threads |-> NullStr]
    /\ box64_lib_handle = [t \in Threads |-> NULL]
    /\ box64_init_func = [t \in Threads |-> NULL]
    /\ trace = [t \in Threads |-> <<>>]
    /\ last = NoCall
    /\ bootstraps = 0
    /\ initCalls = 0

-----------------------------------------------------------------------------
(* InitBox64, lines 41-77, one statement per step *)

Running(t, at) == proc = "running" /\ pc[t] = at

Goto(t, to) == pc' = [pc EXCEPT ![t] = to]

Did(t, what) == trace' = [trace EXCEPT ![t] = Append(@, what)]

\* fprintf(stderr, ...); abort();
Abort(msg) == proc' = "aborted" /\ stderr' = msg

\* Mutant of InitBox64_setenv: InitBox64 also resets the two pointers on entry.
InitBox64_setenv_resets(t) ==
    /\ Running(t, "setenv")
    /\ environ' = box64_ld_library_path
    /\ LoadLibraryWithEmulator' = NULL
    /\ RunFuncWithEmulator' = NULL
    /\ Did(t, "setenv")
    /\ Goto(t, "dlopen")
    /\ UNCHANGED <<bridge, loaded, globalScope, x64Loaded, dlerr, proc, stderr,
                   filename, box64_lib_handle, box64_init_func, last, bootstraps,
                   initCalls>>

\* line 45: setenv("BOX64_LD_LIBRARY_PATH", box64_ld_library_path, 1)
InitBox64_setenv(t) ==
    /\ Running(t, "setenv")
    /\ environ' = box64_ld_library_path
    /\ Did(t, "setenv")
    /\ Goto(t, "dlopen")
    /\ UNCHANGED <<LoadLibraryWithEmulator, RunFuncWithEmulator, bridge, loaded,
                   globalScope, x64Loaded, dlerr, proc, stderr, filename,
                   box64_lib_handle, box64_init_func, last, bootstraps, initCalls>>

\* lines 47-51: dlopen(box64_lib_path, RTLD_GLOBAL | RTLD_NOW), abort on null
InitBox64_dlopen(t) ==
    /\ Running(t, "dlopen")
    /\ LET h == dlopen(box64_lib_path) IN
        /\ box64_lib_handle' = [box64_lib_handle EXCEPT ![t] = h]
        /\ Did(t, "dlopen")
        /\ IF h # NULL
           THEN /\ loaded' = [loaded EXCEPT ![h] = @ + 1]
                /\ globalScope' = globalScope \cup {h}
                /\ dlerr' \in SlotAfter(TRUE, "")
                /\ Goto(t, "dlsym_Initialize")
                /\ UNCHANGED <<proc, stderr>>
           ELSE /\ dlerr' = NoError      \* dlerror() in the fprintf reads the slot
                /\ Abort("Error loading box64 library")
                /\ UNCHANGED <<loaded, globalScope, pc>>
    /\ UNCHANGED <<LoadLibraryWithEmulator, RunFuncWithEmulator, environ, bridge,
                   x64Loaded, filename, box64_init_func, last, bootstraps,
                   initCalls>>

\* Mutant of InitBox64_dlsym_Initialize: the entry points are stored before
\* Initialize has been invoked.
InitBox64_dlsym_Initialize_skips(t) ==
    /\ Running(t, "dlsym_Initialize")
    /\ LET f == dlsym(box64_lib_handle[t], "Initialize") IN
        /\ box64_init_func' = [box64_init_func EXCEPT ![t] = f]
        /\ Did(t, "dlsym:Initialize")
        /\ IF f # NULL
           THEN /\ dlerr' \in SlotAfter(TRUE, "")
                /\ Goto(t, "LoadX64Library")
                /\ UNCHANGED <<proc, stderr>>
           ELSE /\ dlerr' = NoError
                /\ Abort("Error getting symbol Initialize from box64 library")
                /\ UNCHANGED pc
    /\ UNCHANGED <<LoadLibraryWithEmulator, RunFuncWithEmulator, environ, bridge,
                   loaded, globalScope, x64Loaded, filename, box64_lib_handle,
                   last, bootstraps, initCalls>>

\* lines 53-57: dlsym(box64_lib_handle, "Initialize"), abort on null
InitBox64_dlsym_Initialize(t) ==
    /\ Running(t, "dlsym_Initialize")
    /\ LET f == dlsym(box64_lib_handle[t], "Initialize") IN
        /\ box64_init_func' = [box64_init_func EXCEPT ![t] = f]
        /\ Did(t, "dlsym:Initialize")
        /\ IF f # NULL
           THEN /\ dlerr' \in SlotAfter(TRUE, "")
                /\ Goto(t, "Initialize")
                /\ UNCHANGED <<proc, stderr>>
           ELSE /\ dlerr' = NoError
                /\ Abort("Error getting symbol Initialize from box64 library")
                /\ UNCHANGED pc
    /\ UNCHANGED <<LoadLibraryWithEmulator, RunFuncWithEmulator, environ, bridge,
                   loaded, globalScope, x64Loaded, filename, box64_lib_handle,
                   last, bootstraps, initCalls>>

\* lines 58-62: Initialize() != 0 aborts
InitBox64_Initialize(t) ==
    /\ Running(t, "Initialize")
    /\ initCalls' = initCalls + 1
    /\ \E status \in {0, 1} :
        IF status = 0
        THEN /\ Did(t, "Initialize")
             /\ Goto(t, "LoadX64Library")
             /\ UNCHANGED <<proc, stderr>>
        ELSE /\ Did(t, "Initialize!=0")
             /\ Abort("Error initializing box64 library")
             /\ UNCHANGED pc
    /\ UNCHANGED <<LoadLibraryWithEmulator, RunFuncWithEmulator, environ, bridge,
                   loaded, globalScope, x64Loaded, dlerr, filename,
                   box64_lib_handle, box64_init_func, last, bootstraps>>

\* lines 64-68: LoadLibraryWithEmulator = dlsym(..., "LoadX64Library"), abort on null
InitBox64_LoadX64Library(t) ==
    /\ Running(t, "LoadX64Library")
    /\ LET f == dlsym(box64_lib_handle[t], "LoadX64Library") IN
        /\ LoadLibraryWithEmulator' = f
        /\ Did(t, "store:LoadLibraryWithEmulator")
        /\ IF f # NULL
           THEN /\ dlerr' \in SlotAfter(TRUE, "")
                /\ Goto(t, "RunX64Function")
                /\ UNCHANGED <<proc, stderr>>
           ELSE /\ dlerr' = NoError
                /\ Abort("Error getting symbol LoadX64Library from box64 library")
                /\ UNCHANGED pc
    /\ UNCHANGED <<RunFuncWithEmulator, environ, bridge, loaded, globalScope,
                   x64Loaded, filename, box64_lib_handle, box64_init_func, last,
                   bootstraps, initCalls>>

\* Mutant of InitBox64_RunX64Function: a missing RunX64Function is not fatal.
InitBox64_RunX64Function_returns(t) ==
    /\ Running(t, "RunX64Function")
    /\ RunFuncWithEmulator' = dlsym(box64_lib_handle[t], "RunX64Function")
    /\ Did(t, "store:RunFuncWithEmulator")
    /\ dlerr' \in SlotAfter(RunFuncWithEmulator' # NULL, "undefined symbol")
    /\ Goto(t, "returned")
    /\ UNCHANGED <<LoadLibraryWithEmulator, environ, bridge, loaded, globalScope,
                   x64Loaded, proc, stderr, filename, box64_lib_handle,
                   box64_init_func, last, bootstraps, initCalls>>

\* lines 70-76: RunFuncWithEmulator = dlsym(..., "RunX64Function"), abort on null,
\* then InitBox64 returns to lib_open
InitBox64_RunX64Function(t) ==
    /\ Running(t, "RunX64Function")
    /\ LET f == dlsym(box64_lib_handle[t], "RunX64Function") IN
        /\ RunFuncWithEmulator' = f
        /\ Did(t, "store:RunFuncWithEmulator")
        /\ IF f # NULL
           THEN /\ dlerr' \in SlotAfter(TRUE, "")
                /\ Goto(t, "returned")
                /\ UNCHANGED <<proc, stderr>>
           ELSE /\ dlerr' = NoError
                /\ Abort("Error getting symbol RunX64Function from box64 library")
                /\ UNCHANGED pc
    /\ UNCHANGED <<LoadLibraryWithEmulator, environ, bridge, loaded, globalScope,
                   x64Loaded, filename, box64_lib_handle, box64_init_func, last,
                   bootstraps, initCalls>>

InitBox64(t) ==
    \/ InitBox64_setenv(t)
    \/ InitBox64_dlopen(t)
    \/ InitBox64_dlsym_Initialize(t)
    \/ InitBox64_Initialize(t)
    \/ InitBox64_LoadX64Library(t)
    \/ InitBox64_RunX64Function(t)

-----------------------------------------------------------------------------
(* The library calls *)

Returned(op, valid, emu, ret, err, used, via) ==
    last' = [op |-> op, valid |-> valid, emu |-> emu, ret |-> ret,
             err |-> err, used |-> used, via |-> via]

\* Calling through a function pointer that does not hold the entry point's
\* address (a null pointer, in particular) is undefined: the process dies, or
\* the call comes back with some value.
Garbage == {NULL, AddrX64DoWork}

\* line 86: CARLA_SAFE_ASSERT_RETURN(filename != nullptr && filename[0] != '\0', nullptr)
lib_open_rejected(t, fname, use_libbox64) ==
    /\ Returned("lib_open", FALSE, use_libbox64, NULL, NoError, {}, NULL)
    /\ UNCHANGED <<LoadLibraryWithEmulator, RunFuncWithEmulator, environ, bridge,
                   loaded, globalScope, x64Loaded, dlerr, proc, stderr, pc,
                   filename, box64_lib_handle, box64_init_func, trace,
                   bootstraps, initCalls>>

\* line 98: dlopen(filename, RTLD_NOW|(global ? RTLD_GLOBAL : RTLD_LOCAL))
lib_open_native(t, fname, global) ==
    LET h == dlopen(fname.s) IN
    /\ h # NULL => loaded[h] < MaxRef
    /\ loaded' = IF h # NULL THEN [loaded EXCEPT ![h] = @ + 1] ELSE loaded
    /\ globalScope' = IF h # NULL /\ global THEN globalScope \cup {h} ELSE globalScope
    /\ dlerr' \in SlotAfter(h # NULL, "cannot open shared object file")
    /\ Returned("lib_open", TRUE, FALSE, h, NoError, {"dlopen"}, NULL)
    /\ UNCHANGED <<LoadLibraryWithEmulator, RunFuncWithEmulator, environ, bridge,
                   x64Loaded, proc, stderr, pc, filename, box64_lib_handle,
                   box64_init_func, trace, bootstraps, initCalls>>

\* line 95: InitBox64() is entered, whatever the state of the two pointers
lib_open_emulated(t, fname) ==
    /\ bootstraps < MaxBootstraps
    /\ bootstraps' = bootstraps + 1
    /\ Goto(t, "setenv")
    /\ filename' = [filename EXCEPT ![t] = fname]
    /\ UNCHANGED <<LoadLibraryWithEmulator, RunFuncWithEmulator, environ, bridge,
                   loaded, globalScope, x64Loaded, dlerr, proc, stderr, last,
                   box64_lib_handle, box64_init_func, trace, initCalls>>

\* Mutant of lib_open: the filename is not checked before the call is delegated.
lib_open_unchecked(t, fname, global, use_libbox64) ==
    /\ Running(t, "idle")
    /\ IF use_libbox64 THEN lib_open_emulated(t, fname)
       ELSE lib_open_native(t, fname, global)

\* lines 84-102, up to the call of InitBox64
lib_open(t, fname, global, use_libbox64) ==
    /\ Running(t, "idle")
    /\ IF ~NonEmpty(fname) THEN lib_open_rejected(t, fname, use_libbox64)
       ELSE IF use_libbox64 THEN lib_open_emulated(t, fname)
       ELSE lib_open_native(t, fname, global)

\* line 96: return LoadLibraryWithEmulator(filename)
lib_open_return(t) ==
    /\ Running(t, "returned")
    /\ Goto(t, "idle")
    /\ LET via == LoadLibraryWithEmulator
           used == Range(trace[t]) \cup {"call:LoadLibraryWithEmulator"} IN
       IF via = AddrLoadX64Library
       THEN LET h == LoadX64Library(filename[t].s) IN
            /\ x64Loaded' = IF h # NULL THEN x64Loaded \cup {h} ELSE x64Loaded
            /\ Returned("lib_open", TRUE, TRUE, h, NoError, used, via)
            /\ UNCHANGED proc
       ELSE /\ UNCHANGED x64Loaded
            /\ \/ proc' = "crashed" /\ Returned("lib_open", TRUE, TRUE, NULL, NoError, used, via)
               \/ /\ UNCHANGED proc
                  /\ \E r \in Garbage :
                       Returned("lib_open", TRUE, TRUE, r, NoError, used, via)
    /\ filename' = [filename EXCEPT ![t] = NullStr]
    /\ trace' = [trace EXCEPT ![t] = <<>>]
    /\ box64_lib_handle' = [box64_lib_handle EXCEPT ![t] = NULL]
    /\ box64_init_func' = [box64_init_func EXCEPT ![t] = NULL]
    /\ UNCHANGED <<LoadLibraryWithEmulator, RunFuncWithEmulator, environ, bridge,
                   loaded, globalScope, dlerr, stderr, bootstraps, initCalls>>

\* lines 109-120
lib_close(t, lib) ==
    /\ Running(t, "idle")
    /\ IF lib = NULL
       THEN /\ Returned("lib_close", FALSE, FALSE, 0, NoError, {}, NULL)
            /\ UNCHANGED <<loaded, globalScope, dlerr>>
       ELSE /\ loaded' = [loaded EXCEPT ![lib] = @ - 1]
            /\ globalScope' = IF loaded[lib] = 1 THEN globalScope \ {lib} ELSE globalScope
            /\ dlerr' \in SlotAfter(TRUE, "")
            /\ Returned("lib_close", TRUE, FALSE, 1, NoError, {"dlclose"}, NULL)
    /\ UNCHANGED <<LoadLibraryWithEmulator, RunFuncWithEmulator, environ, bridge,
                   x64Loaded, proc, stderr, pc, filename, box64_lib_handle,
                   box64_init_func, trace, bootstraps, initCalls>>

\* line 147: RunFuncWithEmulator(lib, symbol)
lib_symbol_emulated(t, lib, symbol) ==
    LET via == RunFuncWithEmulator
        used == {"call:RunFuncWithEmulator"} IN
    /\ UNCHANGED dlerr
    /\ IF via = AddrRunX64Function
       THEN /\ Returned("lib_symbol", TRUE, TRUE, RunX64Function(lib, symbol.s),
                        NoError, used, via)
            /\ UNCHANGED proc
       ELSE \/ proc' = "crashed" /\ Returned("lib_symbol", TRUE, TRUE, NULL, NoError, used, via)
            \/ /\ UNCHANGED proc
               /\ \E r \in Garbage :
                    Returned("lib_symbol", TRUE, TRUE, r, NoError, used, via)

\* line 149: dlsym(lib, symbol)
lib_symbol_native(t, lib, symbol) ==
    LET f == dlsym(lib, symbol.s) IN
    /\ dlerr' \in SlotAfter(f # NULL, "undefined symbol")
    /\ Returned("lib_symbol", TRUE, FALSE, f, NoError, {"dlsym"}, NULL)
    /\ UNCHANGED proc

\* Mutant of lib_symbol: use_libbox64 is ignored and box64 is always called.
lib_symbol_always_emulated(t, lib, symbol, use_libbox64) ==
    /\ Running(t, "idle")
    /\ IF lib = NULL \/ ~NonEmpty(symbol)
       THEN /\ Returned("lib_symbol", FALSE, use_libbox64, NULL, NoError, {}, NULL)
            /\ UNCHANGED <<dlerr, proc>>
       ELSE /\ UNCHANGED <<dlerr, proc>>
            /\ Returned("lib_symbol", TRUE, use_libbox64, RunX64Function(lib, symbol.s),
                        NoError, {"call:RunFuncWithEmulator"}, RunFuncWithEmulator)
    /\ UNCHANGED <<LoadLibraryWithEmulator, RunFuncWithEmulator, environ, bridge,
                   loaded, globalScope, x64Loaded, stderr, pc, filename,
                   box64_lib_handle, box64_init_func, trace, bootstraps, initCalls>>

\* lines 126-153
lib_symbol(t, lib, symbol, use_libbox64) ==
    /\ Running(t, "idle")
    /\ IF lib = NULL \/ ~NonEmpty(symbol)
       THEN /\ Returned("lib_symbol", FALSE, use_libbox64, NULL, NoError, {}, NULL)
            /\ UNCHANGED <<dlerr, proc>>
       ELSE IF use_libbox64 THEN lib_symbol_emulated(t, lib, symbol)
       ELSE lib_symbol_native(t, lib, symbol)
    /\ UNCHANGED <<LoadLibraryWithEmulator, RunFuncWithEmulator, environ, bridge,
                   loaded, globalScope, x64Loaded, stderr, pc, filename,
                   box64_lib_handle, box64_init_func, trace, bootstraps, initCalls>>

\* Mutant of lib_error: the emulated path reports no error.
lib_error_native_only(t, fname, use_libbox64) ==
    /\ Running(t, "idle")
    /\ IF ~NonEmpty(fname) \/ use_libbox64
       THEN /\ Returned("lib_error", NonEmpty(fname), use_libbox64, NULL, NoError, {}, NULL)
            /\ UNCHANGED dlerr
       ELSE /\ Returned("lib_error", TRUE, use_libbox64, NULL, dlerr, {"dlerror"}, NULL)
            /\ dlerr' = NoError
    /\ UNCHANGED <<LoadLibraryWithEmulator, RunFuncWithEmulator, environ, bridge,
                   loaded, globalScope, x64Loaded, proc, stderr, pc, filename,
                   box64_lib_handle, box64_init_func, trace, bootstraps, initCalls>>

\* lines 159-183: return ::dlerror(), which reads the slot and empties it
lib_error(t, fname, use_libbox64) ==
    /\ Running(t, "idle")
    /\ IF ~NonEmpty(fname)
       THEN /\ Returned("lib_error", FALSE, use_libbox64, NULL, NoError, {}, NULL)
            /\ UNCHANGED dlerr
       ELSE /\ Returned("lib_error", TRUE, use_libbox64, NULL, dlerr, {"dlerror"}, NULL)
            /\ dlerr' = NoError
    /\ UNCHANGED <<LoadLibraryWithEmulator, RunFuncWithEmulator, environ, bridge,
                   loaded, globalScope, x64Loaded, proc, stderr, pc, filename,
                   box64_lib_handle, box64_init_func, trace, bootstraps, initCalls>>

-----------------------------------------------------------------------------
(* Callers *)

\* Handles a caller holds: the libraries it opened and has not closed.
NativeHandles == {h \in {FooHandle} : loaded[h] > 0}
OpenHandles == NativeHandles \cup x64Loaded

Open(t) == \E f \in FileArgs, g \in BOOLEAN, e \in BOOLEAN : lib_open(t, f, g, e)

Close(t) == \E h \in {NULL} \cup NativeHandles : lib_close(t, h)

Symbol(t) ==
    \E e \in BOOLEAN, s \in SymbolArgs :
        \E h \in {NULL} \cup (IF e THEN OpenHandles ELSE NativeHandles) :
            lib_symbol(t, h, s, e)

ErrorOf(t) == \E f \in FileArgs, e \in BOOLEAN : lib_error(t, f, e)

Step(t) ==
    \/ Open(t)
    \/ InitBox64(t)
    \/ lib_open_return(t)
    \/ Close(t)
    \/ Symbol(t)
    \/ ErrorOf(t)

\* Any number of threads call into the library.
Next == \E t \in Threads : Step(t)

Spec == Init /\ [][Next]_vars

\* One thread calls into the library.
NextSeq == Step(MainThread)

SpecSeq == Init /\ [][NextSeq]_vars

-----------------------------------------------------------------------------
(* Properties *)

BootstrapPcs == {"setenv", "dlopen", "dlsym_Initialize", "Initialize",
                 "LoadX64Library", "RunX64Function"}

BothSet == LoadLibraryWithEmulator # NULL /\ RunFuncWithEmulator # NULL
BothUnset == LoadLibraryWithEmulator = NULL /\ RunFuncWithEmulator = NULL

\* The order of the steps of one run of InitBox64.
Order == <<"setenv", "dlopen", "dlsym:Initialize", "Initialize",
           "store:LoadLibraryWithEmulator", "store:RunFuncWithEmulator">>

NativePrimitives == {"dlopen", "dlsym", "dlclose", "dlerror"}

\* A call that was turned away: null/false result, nothing called, and nothing
\* but the record of the call changed.
Rejected ==
    /\ last'.ret = NULL
    /\ last'.err = NoError
    /\ last'.used = {}
    /\ UNCHANGED <<LoadLibraryWithEmulator, RunFuncWithEmulator, environ, bridge,
                   loaded, globalScope, x64Loaded, dlerr, proc, stderr, pc,
                   filename, box64_lib_handle, box64_init_func, trace,
                   bootstraps, initCalls>>

AnyHandle == {NULL, FooHandle, Box64Handle, X64Handle}

\* C1: in every state of the running process the two entry points are both
\* unset or both set; no state in which exactly one of them is set can be
\* observed.
C1_BothOrNeither == proc = "running" => (BothSet \/ BothUnset)

\* C2: InitBox64 is started only by a lib_open that finds both entry points
\* unset, so box64's Initialize is invoked at most once per process.
C2_BootstrapOnlyWhenUnset ==
    [][/\ \A t \in Threads : (pc[t] = "idle" /\ pc'[t] = "setenv") => BothUnset
       /\ initCalls' <= 1]_vars

\* C3: every failure of the bootstrap aborts the process: a thread gets past a
\* step of InitBox64 only if the step succeeded, InitBox64 returns only with
\* both entry points set, an emulated lib_open that returns has gone through
\* LoadX64Library, and a failed step leaves the process aborted.
C3_BootstrapFailureIsFatal ==
    /\ \A t \in Threads :
        /\ pc[t] = "returned" => BothSet
        /\ pc[t] \in {"dlsym_Initialize", "Initialize", "LoadX64Library",
                      "RunX64Function", "returned"} => box64_lib_handle[t] # NULL
        /\ pc[t] \in {"Initialize", "LoadX64Library", "RunX64Function", "returned"}
             => box64_init_func[t] # NULL
        /\ pc[t] \in {"RunX64Function", "returned"} => LoadLibraryWithEmulator # NULL
        /\ "dlopen" \in Range(trace[t]) /\ ~bridge.exists => proc = "aborted"
        /\ "dlsym:Initialize" \in Range(trace[t]) /\ "Initialize" \notin bridge.syms
             => proc = "aborted"
        /\ "Initialize!=0" \in Range(trace[t]) => proc = "aborted"
        /\ "store:LoadLibraryWithEmulator" \in Range(trace[t])
             /\ "LoadX64Library" \notin bridge.syms => proc = "aborted"
        /\ "store:RunFuncWithEmulator" \in Range(trace[t])
             /\ "RunX64Function" \notin bridge.syms => proc = "aborted"
    /\ last.op = "lib_open" /\ last.emu /\ last.valid
         => last.via = AddrLoadX64Library /\ "call:LoadLibraryWithEmulator" \in last.used
    /\ proc = "aborted" => stderr # "none"

C3_Witness == proc = "aborted" /\ stderr = "Error initializing box64 library"

\* C4: lib_open with a null or empty filename, lib_symbol with a null handle or
\* a null or empty symbol, and lib_close with a null handle return null/false,
\* for either value of use_libbox64, without calling the loader or box64,
\* without starting InitBox64, and leaving the two entry points unchanged.
C4_ValidationPrecedesDelegation ==
    [][/\ \A t \in Threads, f \in FileArgs, g \in BOOLEAN, e \in BOOLEAN :
            ~NonEmpty(f) /\ lib_open(t, f, g, e) => Rejected
       /\ \A t \in Threads, h \in AnyHandle, s \in SymbolArgs, e \in BOOLEAN :
            (h = NULL \/ ~NonEmpty(s)) /\ lib_symbol(t, h, s, e) => Rejected
       /\ \A t \in Threads : lib_close(t, NULL) => Rejected]_vars

C4_Witness ==
    /\ last.op = "lib_open" /\ ~last.valid /\ last.emu /\ last.ret = NULL
    /\ bootstraps = 0 /\ BothUnset

\* C5: InitBox64 is guarded by a one-time-execution primitive: two threads are
\* never inside it at the same time and Initialize is invoked by one of them
\* only.
C5_OneTimeGuard ==
    /\ Cardinality({t \in Threads : pc[t] \in BootstrapPcs}) <= 1
    /\ initCalls <= 1

\* C6: against a stable box64 (dlsym gives the same addresses), a second run of
\* InitBox64 on one thread leaves each entry point with the value the first run
\* gave it: an entry point that is set never changes its value.
C6_BootstrapIdempotent ==
    [][/\ LoadLibraryWithEmulator # NULL
            => LoadLibraryWithEmulator' = LoadLibraryWithEmulator
       /\ RunFuncWithEmulator # NULL
            => RunFuncWithEmulator' = RunFuncWithEmulator]_vars

C6_Witness == bootstraps = 2 /\ pc[MainThread] = "returned" /\ BothSet

\* C7: a native lib_open of a nonexistent path returns null, and the lib_error
\* call that follows a failed native lib_open, with a non-empty filename and
\* either value of use_libbox64, returns the loader's message: a non-null,
\* non-empty string.
C7_ErrorAfterFailedOpen ==
    [][/\ \A t \in Threads, g \in BOOLEAN :
            lib_open(t, CStr("/nonexistent/path.so"), g, FALSE)
                => last'.ret = NULL /\ ~dlerr'.null
       /\ \A t \in Threads, f \in FileArgs, e \in BOOLEAN :
            /\ last.op = "lib_open" /\ last.valid /\ ~last.emu /\ last.ret = NULL
            /\ NonEmpty(f)
            /\ lib_error(t, f, e)
            => ~last'.err.null /\ last'.err.s # ""]_vars

C7_Witness ==
    /\ last.op = "lib_error" /\ last.valid /\ last.emu
    /\ last.err = Error("cannot open shared object file")

\* C8: the steps of a run of InitBox64 happen in the order setenv, dlopen with
\* RTLD_GLOBAL, dlsym of Initialize, Initialize returning 0, store of
\* LoadLibraryWithEmulator, store of RunFuncWithEmulator; no entry point is
\* stored in a run whose Initialize returned non-zero, and the environment
\* variable holds box64's path from the first step on, also after an abort.
C8_BootstrapOrder ==
    /\ \A t \in Threads :
        /\ Len(trace[t]) <= Len(Order)
        /\ \A i \in 1..Len(trace[t]) :
             \/ trace[t][i] = Order[i]
             \/ i = 4 /\ trace[t][i] = "Initialize!=0" /\ Len(trace[t]) = 4
        /\ Len(trace[t]) >= 1 => environ = box64_ld_library_path
        /\ Len(trace[t]) >= 3 => Box64Handle \in globalScope
    /\ proc = "aborted" => environ = box64_ld_library_path
    /\ ~BothUnset => initCalls >= 1

C8_Witness ==
    \E t \in Threads : pc[t] = "returned" /\ trace[t] = Order /\ BothSet

\* C9: a native lib_open, a native lib_symbol, lib_close and lib_error leave
\* the two entry points and the environment variable unchanged, do not start
\* InitBox64 and call no box64 entry point, whether or not the bootstrap has
\* already run.
C9_NativeLeavesBridgeAlone ==
    [][\A t \in Threads :
         (\/ \E f \in FileArgs, g \in BOOLEAN : lib_open(t, f, g, FALSE)
          \/ \E h \in AnyHandle, s \in SymbolArgs : lib_symbol(t, h, s, FALSE)
          \/ \E h \in {NULL, FooHandle, Box64Handle} : lib_close(t, h)
          \/ \E f \in FileArgs, e \in BOOLEAN : lib_error(t, f, e))
         => /\ UNCHANGED <<LoadLibraryWithEmulator, RunFuncWithEmulator, environ,
                           x64Loaded, pc, trace, bootstraps, initCalls>>
            /\ last'.used \subseteq NativePrimitives
            /\ last'.via = NULL]_vars

C9_Witness ==
    /\ last.op = "lib_symbol" /\ ~last.emu /\ last.ret = AddrDoWork
    /\ BothSet /\ environ = box64_ld_library_path

\* C10: an emulated lib_symbol with a non-null handle and a non-empty symbol
\* calls RunFuncWithEmulator only when it is set: no call goes through a null
\* entry point.
C10_NeverCallsNull ==
    /\ proc # "crashed"
    /\ "call:RunFuncWithEmulator" \in last.used => last.via # NULL

====
